---- MODULE Spec2Model ----
(***************************************************************************)
(* Feed discovery engine of feed_finder.py: RateLimiter, RetryStrategy,    *)
(* and FeedFinder (_clean_url, _fetch_url, _check_feed_url,                *)
(* _find_feeds_in_html, _discover_feeds, _process_urls).                   *)
(*                                                                         *)
(* Every coroutine of _process_urls is a task.  A task's position is its   *)
(* pc; one action is the code a task runs between two suspension points    *)
(* of the event loop.  Time is counted in ticks.  The wall clock           *)
(* time.time() only ever enters the code as the difference                 *)
(* now - last_request, which the model keeps as the age of last_request.   *)
(***************************************************************************)
EXTENDS Integers, Sequences, FiniteSets, TLC

\* ------------------------------------------------------------------------
\* Text helpers (Python str operations used by the code)
\* ------------------------------------------------------------------------

Max(a, b) == IF a >= b THEN a ELSE b

RECURSIVE Pow2(_)
Pow2(n) == IF n <= 0 THEN 1 ELSE 2 * Pow2(n - 1)

\* s.startswith(p)
StartsWith(s, p) == Len(s) >= Len(p) /\ SubSeq(s, 1, Len(p)) = p

\* s.endswith(p)
EndsWith(s, p) == Len(s) >= Len(p) /\ SubSeq(s, Len(s) - Len(p) + 1, Len(s)) = p

\* p in s
RECURSIVE ContainsFrom(_, _, _)
ContainsFrom(s, p, i) ==
    IF i + Len(p) - 1 > Len(s) THEN FALSE
    ELSE IF SubSeq(s, i, i + Len(p) - 1) = p THEN TRUE
    ELSE ContainsFrom(s, p, i + 1)

Contains(s, p) == \E text \in {s} : ContainsFrom(text, p, 1)

\* index of the first occurrence of p in s at or after i, 0 if none
RECURSIVE FindFrom(_, _, _)
FindFrom(s, p, i) ==
    IF i + Len(p) - 1 > Len(s) THEN 0
    ELSE IF SubSeq(s, i, i + Len(p) - 1) = p THEN i
    ELSE FindFrom(s, p, i + 1)

\* index of the last occurrence of the character c in s, 0 if none
RECURSIVE RFind(_, _, _)
RFind(s, c, i) ==
    IF i < 1 THEN 0
    ELSE IF SubSeq(s, i, i) = c THEN i
    ELSE RFind(s, c, i - 1)

\* one character of str.lower()
LowerChar(c) ==
    CASE c = "A" -> "a" [] c = "B" -> "b" [] c = "C" -> "c" [] c = "D" -> "d"
      [] c = "E" -> "e" [] c = "F" -> "f" [] c = "G" -> "g" [] c = "H" -> "h"
      [] c = "I" -> "i" [] c = "J" -> "j" [] c = "K" -> "k" [] c = "L" -> "l"
      [] c = "M" -> "m" [] c = "N" -> "n" [] c = "O" -> "o" [] c = "P" -> "p"
      [] c = "Q" -> "q" [] c = "R" -> "r" [] c = "S" -> "s" [] c = "T" -> "t"
      [] c = "U" -> "u" [] c = "V" -> "v" [] c = "W" -> "w" [] c = "X" -> "x"
      [] c = "Y" -> "y" [] c = "Z" -> "z" [] OTHER -> c

\* s.lower()
RECURSIVE Lower(_)
Lower(s) ==
    IF Len(s) = 0 THEN ""
    ELSE CHOOSE low \in {LowerChar(SubSeq(s, 1, 1)) \o Lower(rest) : rest \in {SubSeq(s, 2, Len(s))}} : TRUE

\* variant: one trailing '/' is removed, not all of them
RStripOneSlash(s) ==
    IF Len(s) > 0 /\ SubSeq(s, Len(s), Len(s)) = "/" THEN SubSeq(s, 1, Len(s) - 1) ELSE s

\* s.rstrip('/')
RECURSIVE RStripSlash(_)
RStripSlash(s) ==
    IF Len(s) > 0 /\ SubSeq(s, Len(s), Len(s)) = "/"
    THEN RStripSlash(SubSeq(s, 1, Len(s) - 1))
    ELSE s

\* ------------------------------------------------------------------------
\* FeedFinder._clean_url
\* ------------------------------------------------------------------------

_clean_url(url) ==
    LET withScheme == IF StartsWith(url, "http://") \/ StartsWith(url, "https://")
                      THEN url
                      ELSE "https://" \o url
    IN  RStripSlash(withScheme)

\* ------------------------------------------------------------------------
\* urllib.parse.urljoin, for http(s) bases and the reference shapes that
\* occur here: empty, absolute URL, absolute path, relative path.
\* ------------------------------------------------------------------------

NoValue == "<None>"

ValueError == "ValueError"

\* the scheme urlsplit finds, "" when the text has none
SchemeOf(u) ==
    IF StartsWith(u, "https:") THEN "https"
    ELSE IF StartsWith(u, "http:") THEN "http"
    ELSE ""

\* the text after "scheme:"
AfterScheme(u, sch) == IF sch = "" THEN u ELSE SubSeq(u, Len(sch) + 2, Len(u))

\* netloc and path of the text after "//", whose first "/" is at cut (0: none)
SplitAt(sch, after, cut) ==
    [scheme |-> sch,
     netloc |-> IF cut = 0 THEN after ELSE SubSeq(after, 1, cut - 1),
     path   |-> IF cut = 0 THEN "" ELSE SubSeq(after, cut, Len(after))]

SplitAuthority(sch, rest) ==
    IF sch # "" /\ StartsWith(rest, "//")
    THEN SplitAt(sch, SubSeq(rest, 3, Len(rest)), FindFrom(SubSeq(rest, 3, Len(rest)), "/", 1))
    ELSE [scheme |-> sch, netloc |-> "", path |-> rest]

\* urlsplit of an http(s) URL or a scheme-less reference: [scheme, netloc, path]
UrlSplit(u) == SplitAuthority(SchemeOf(u), AfterScheme(u, SchemeOf(u)))

\* urlsplit raises ValueError("Invalid IPv6 URL") on an unbalanced bracket
BadNetloc(n) == Contains(n, "[") # Contains(n, "]")

SplitRaises(u) == BadNetloc(UrlSplit(u).netloc)

\* the directory of a base path, "/" for an empty path
DirAt(path, slash) == IF slash = 0 THEN "/" ELSE SubSeq(path, 1, slash)

DirOf(path) == DirAt(path, RFind(path, "/", Len(path)))

\* the join of a split base with a reference that has no scheme
JoinPath(b, ref) ==
    IF StartsWith(ref, "/")
    THEN b.scheme \o "://" \o b.netloc \o ref
    ELSE b.scheme \o "://" \o b.netloc \o DirOf(b.path) \o ref

\* [raised |-> BOOLEAN, url |-> text]
urljoin(base, ref) ==
    IF SplitRaises(base) \/ SplitRaises(ref) THEN [raised |-> TRUE, url |-> ValueError]
    ELSE IF ref = "" THEN [raised |-> FALSE, url |-> base]
    ELSE IF SchemeOf(ref) # "" THEN [raised |-> FALSE, url |-> ref]
    ELSE [raised |-> FALSE, url |-> JoinPath(UrlSplit(base), ref)]

\* ------------------------------------------------------------------------
\* Program constants
\* ------------------------------------------------------------------------

COMMON_PATHS ==
    << "/feed", "/rss", "/atom.xml", "/feed.xml", "/rss.xml", "/index.xml",
       "/feed/atom", "/feed/rss", "/rss/atom", "/blog/feed", "/blog.atom",
       "/feed/wp-rss2.xml", "/wp-feed.php", "/wp-rss.php",
       "/blog/index.rss", "/syndication.axd" >>

FEED_LINK_TYPES == {"application/rss+xml", "application/atom+xml"}

FEED_WORDS == {"rss", "feed", "atom", "subscribe"}

HTTP_OK == 200

TypeError == "TypeError"

ParseError == "ParseError"

\* ------------------------------------------------------------------------
\* The remote world: what the transport answers for a URL when the exchange
\* completes, and what the two parser libraries make of a body.
\* ------------------------------------------------------------------------

AtomBody == "<feed xmlns=Atom>"

RssBody == "<rss>"

GarbageBody == "junk"

NoFeedBody == "<xml/>"

PoisonBody == "<rss \\0>"

NotFoundBody == "Not Found"

HomeA == "<html a>"

HomeB == "<html b>"

HomeC == "<html c>"

HomeE == "<html e>"

Response(status, content) == [none |-> FALSE, content |-> content, status |-> status]

NotFound == Response(404, NotFoundBody)

\* the response of a completed exchange (after redirects) for url
Serve(url) ==
    CASE url = "https://a.io"          -> Response(HTTP_OK, HomeA)
      [] url = "https://a.io/atom.xml" -> Response(HTTP_OK, AtomBody)
      [] url = "https://a.io/rss.xml"  -> Response(HTTP_OK, RssBody)
      [] url = "https://b.io"          -> Response(HTTP_OK, HomeB)
      [] url = "https://b.io/feed"     -> Response(404, AtomBody)
      [] url = "https://b.io/rss"      -> Response(HTTP_OK, "")
      [] url = "https://b.io/index.xml" -> Response(HTTP_OK, GarbageBody)
      [] url = "https://b.io/feed.xml" -> Response(HTTP_OK, NoFeedBody)
      [] url = "https://b.io/feeds/main" -> Response(HTTP_OK, RssBody)
      [] url = "http://c.io"           -> Response(HTTP_OK, HomeC)
      [] url = "http://c.io/main.rss"  -> Response(HTTP_OK, RssBody)
      [] url = "https://d.io"          -> Response(500, "")
      [] url = "https://d.io/feed"     -> Response(HTTP_OK, RssBody)
      [] url = "https://d.io/rss"      -> Response(HTTP_OK, PoisonBody)
      [] url = "https://e.io"          -> Response(HTTP_OK, HomeE)
      [] url = "https://e.io/e.rss"    -> Response(HTTP_OK, RssBody)
      [] OTHER                         -> NotFound

\* a url without a host, such as https:///feed: session.get raises InvalidURL
NoHost(url) == UrlSplit(url).netloc = ""

\* the exchanges that may fail (timeout, connection error): those with c.io;
\* the other hosts always answer; without a host the exchange always fails
MayFail(url) == StartsWith(url, "http://c.io") \/ NoHost(url)

\* feedparser.parse(content): the parser's verdict on a body
Parse(content) ==
    CASE content = AtomBody   -> [raises |-> FALSE, bozo |-> 0, feed |-> TRUE, title |-> "An Atom blog"]
      [] content = RssBody    -> [raises |-> FALSE, bozo |-> 0, feed |-> TRUE, title |-> ""]
      [] content = NoFeedBody -> [raises |-> FALSE, bozo |-> 0, feed |-> FALSE, title |-> ""]
      [] content = PoisonBody -> [raises |-> TRUE, bozo |-> 1, feed |-> FALSE, title |-> ""]
      [] OTHER                -> [raises |-> FALSE, bozo |-> 1, feed |-> FALSE, title |-> ""]

Elem(tag, type, href, text) == [tag |-> tag, type |-> type, href |-> href, text |-> text]

\* BeautifulSoup(content, 'lxml'): the link and anchor elements in document order
Soup(content) ==
    CASE content = HomeA ->
           << Elem("link", "application/atom+xml", "/atom.xml", ""),
              Elem("a", NoValue, "/rss.xml", "RSS") >>
      [] content = HomeB ->
           << Elem("a", NoValue, "/about", "About us"),
              Elem("a", NoValue, "/feeds/main", "RSS Feed"),
              Elem("link", "text/css", "/s.css", ""),
              Elem("a", NoValue, NoValue, "Atom"),
              Elem("link", "application/rss+xml", "/feeds/main", ""),
              Elem("link", "application/atom+xml", NoValue, "") >>
      [] content = HomeC ->
           << Elem("a", NoValue, "/main.rss", "Subscribe") >>
      [] content = HomeE ->
           << Elem("a", NoValue, "/e.rss", "my feed"),
              Elem("a", NoValue, "http://[", "Atom") >>
      [] OTHER -> << >>

\* ------------------------------------------------------------------------
\* State
\* ------------------------------------------------------------------------

VARIABLES
    max_retries,    \* RetryStrategy.max_retries
    base_delay,     \* RetryStrategy.base_delay, in ticks
    interval,       \* 1/RateLimiter.rate, in ticks
    urls,           \* the argument of _process_urls
    lock_owner,     \* RateLimiter._lock: the task holding it, NoTask if free
    lock_waiters,   \* RateLimiter._lock: the tasks blocked on it, first come first
    age,            \* time.time() - RateLimiter.last_request, saturating at interval
    pc,             \* per task: where the coroutine is suspended
    phase,          \* per task: "known", "root", "links" or "anchors"
    idx,            \* per task: loop position in COMMON_PATHS or in the page's elements
    target,         \* per task: the url of the _fetch_url call in progress
    attempt,        \* per task: loop variable of RetryStrategy.execute
    timer,          \* per task: ticks left of the asyncio.sleep in progress
    outcome,        \* per task: what _fetch_url returned
    result,         \* per task: the result dict of _discover_feeds
    html_feeds,     \* per task: the feeds list of _find_feeds_in_html
    page,           \* per task: the content argument of _find_feeds_in_html
    results,        \* the results list of _process_urls
    batch_pc,       \* "running" until _process_urls returns
    calls,          \* history, per task: invocations of the operation by the current execute
    delays,         \* history, per task: backoff sleeps of the current execute
    raised,         \* history, per task: the current execute raised to _fetch_url
    succeeded,      \* history, per task: an invocation by the current execute returned a value
    answered,       \* history, per task: some exchange of the task completed with a response
    root_reply,     \* history, per task: the response to the fetch of the site's root url
    fetch_log,      \* history, per task: the _fetch_url calls so far, [url, phase]
    hit_log,        \* history, per task: the urls _check_feed_url accepted so far, [url, phase]
    acq_any,        \* history: some acquire has completed
    acq_age,        \* history: ticks since the last completion of acquire, saturating
    acq_gap_ok,     \* history: every two consecutive completions were >= interval apart
    first_waited,   \* history: the first acquire to complete had slept
    get_any,        \* history: some GET has been issued
    get_age,        \* history: ticks since the last GET, saturating
    get_gap_ok      \* history: every two consecutive GETs were >= interval apart

cfgVars == <<max_retries, base_delay, interval, urls>>

lockVars == <<lock_owner, lock_waiters>>

limVars == <<age, acq_any, acq_age, acq_gap_ok, first_waited>>

getVars == <<get_any, get_age, get_gap_ok>>

retryVars == <<attempt, calls, delays, raised, succeeded>>

siteVars == <<phase, idx, target, result, html_feeds, page, results, fetch_log, hit_log>>

envVars == <<answered, root_reply>>

vars == <<max_retries, base_delay, interval, urls, lock_owner, lock_waiters, age,
          pc, phase, idx, target, attempt, timer, outcome, result, html_feeds, page,
          results, batch_pc, calls, delays, raised, succeeded, answered, root_reply, fetch_log, hit_log,
          acq_any, acq_age, acq_gap_ok, first_waited,
          get_any, get_age, get_gap_ok>>

NoTask == 0

Tasks == 1..Len(urls)

NoneOutcome == [none |-> TRUE, content |-> "", status |-> 0]

NoOutcome == [none |-> FALSE, content |-> NoValue, status |-> -1]

\* ------------------------------------------------------------------------
\* Bounds of the configurations and inputs explored
\* ------------------------------------------------------------------------

MaxRetriesBound == 3

MaxBaseDelay == 1

MaxInterval == 2

\* state after FeedFinder() is constructed and _process_urls(urlList) is called
InitWith(urlLists, retries, baseDelays, intervals) ==
    /\ urls \in urlLists
    /\ max_retries \in retries
    /\ base_delay \in baseDelays
    /\ interval \in intervals
    /\ lock_owner = NoTask
    /\ lock_waiters = << >>
    /\ age = interval
    /\ pc = [t \in Tasks |-> "start"]
    /\ phase = [t \in Tasks |-> "known"]
    /\ idx = [t \in Tasks |-> 0]
    /\ target = [t \in Tasks |-> NoValue]
    /\ attempt = [t \in Tasks |-> 0]
    /\ timer = [t \in Tasks |-> 0]
    /\ outcome = [t \in Tasks |-> NoOutcome]
    /\ result = [t \in Tasks |-> [url |-> NoValue, feeds |-> << >>, status |-> NoValue, error |-> NoValue]]
    /\ html_feeds = [t \in Tasks |-> << >>]
    /\ page = [t \in Tasks |-> NoValue]
    /\ results = << >>
    /\ batch_pc = "running"
    /\ calls = [t \in Tasks |-> 0]
    /\ delays = [t \in Tasks |-> << >>]
    /\ raised = [t \in Tasks |-> FALSE]
    /\ succeeded = [t \in Tasks |-> FALSE]
    /\ answered = [t \in Tasks |-> FALSE]
    /\ root_reply = [t \in Tasks |-> NoOutcome]
    /\ fetch_log = [t \in Tasks |-> << >>]
    /\ hit_log = [t \in Tasks |-> << >>]
    /\ acq_any = FALSE
    /\ acq_age = interval
    /\ acq_gap_ok = TRUE
    /\ first_waited = FALSE
    /\ get_any = FALSE
    /\ get_age = interval
    /\ get_gap_ok = TRUE

\* ------------------------------------------------------------------------
\* RateLimiter.acquire and RetryStrategy.execute, as run by _fetch_url
\* ------------------------------------------------------------------------

Min(a, b) == IF a <= b THEN a ELSE b

\* except Exception in _fetch_url: return '', 0
FetchFailure == [none |-> FALSE, content |-> "", status |-> 0]

\* variant: the wait is cut one tick short
WaitTimeShort(elapsed) == Max(0, interval - 1 - elapsed)

\* wait_time = max(0, 1/self.rate - (now - self.last_request))
WaitTime(elapsed) == Max(0, interval - elapsed)

\* variant: the lock never makes a caller wait
LockAlwaysFree == TRUE

\* async with self._lock: the lock can be taken without suspending
LockFree == lock_owner = NoTask /\ lock_waiters = << >>

\* variant: no exponent, every backoff is base_delay
BackoffDelayFlat(att) == base_delay

\* delay = self.base_delay * (2 ** attempt)
BackoffDelay(att) == base_delay * Pow2(att)

\* if attempt == self.max_retries - 1: raise
IsLastAttempt(att) == att = max_retries - 1

\* variant: the value of the successful attempt is lost on the way out
ReturnValueLost(value) == FetchFailure

\* return await coroutine(*args, **kwargs), and _fetch_url returns it in turn
ReturnValue(value) == value

\* session.get(url): one GET is handed to the transport
IssueGet ==
    /\ get_gap_ok' = (get_gap_ok /\ (get_any => get_age >= interval))
    /\ get_any' = TRUE
    /\ get_age' = 0

\* variant: the lock is not left at the end of acquire
RecordRequestKeepsLock(slept) ==
    /\ age' = 0
    /\ lock_owner' = lock_owner
    /\ acq_gap_ok' = (acq_gap_ok /\ (acq_any => acq_age >= interval))
    /\ first_waited' = IF acq_any THEN first_waited ELSE slept
    /\ acq_any' = TRUE
    /\ acq_age' = 0

\* self.last_request = time.time(), and the lock is left
RecordRequest(slept) ==
    /\ age' = 0
    /\ lock_owner' = NoTask
    /\ acq_gap_ok' = (acq_gap_ok /\ (acq_any => acq_age >= interval))
    /\ first_waited' = IF acq_any THEN first_waited ELSE slept
    /\ acq_any' = TRUE
    /\ acq_age' = 0

\* RetryStrategy.execute is entered: the loop runs range(max_retries); with
\* an empty range the function falls off its end and returns None
BeginExecute(t) ==
    IF max_retries <= 0
    THEN /\ pc' = [pc EXCEPT ![t] = "fetch_return"]
         /\ outcome' = [outcome EXCEPT ![t] = NoneOutcome]
         /\ UNCHANGED <<retryVars, getVars>>
    ELSE /\ pc' = [pc EXCEPT ![t] = "awaiting"]
         /\ attempt' = [attempt EXCEPT ![t] = 0]
         /\ calls' = [calls EXCEPT ![t] = 1]
         /\ IssueGet
         /\ UNCHANGED <<outcome, delays, raised, succeeded>>

\* variant: the lock is left before the sleep
AcquireBodyUnlockedSleep(t) ==
    LET wait_time == WaitTime(age)
    IN  IF wait_time > 0
        THEN /\ lock_owner' = NoTask
             /\ pc' = [pc EXCEPT ![t] = "limiter_sleep"]
             /\ timer' = [timer EXCEPT ![t] = wait_time]
             /\ UNCHANGED <<limVars, getVars, retryVars, outcome>>
        ELSE /\ RecordRequest(FALSE)
             /\ BeginExecute(t)
             /\ UNCHANGED timer

\* the body of acquire once the lock is held
AcquireBody(t) ==
    LET wait_time == WaitTime(age)
    IN  IF wait_time > 0
        THEN /\ lock_owner' = t
             /\ pc' = [pc EXCEPT ![t] = "limiter_sleep"]
             /\ timer' = [timer EXCEPT ![t] = wait_time]
             /\ UNCHANGED <<limVars, getVars, retryVars, outcome>>
        ELSE /\ RecordRequest(FALSE)
             /\ BeginExecute(t)
             /\ UNCHANGED timer

\* _fetch_url is called: await self.rate_limiter.acquire()
Acquire(t) ==
    /\ pc[t] = "call_fetch"
    /\ IF LockFree
       THEN AcquireBody(t) /\ UNCHANGED lock_waiters
       ELSE /\ lock_waiters' = Append(lock_waiters, t)
            /\ pc' = [pc EXCEPT ![t] = "lock_wait"]
            /\ UNCHANGED <<lock_owner, limVars, getVars, retryVars, outcome, timer>>
    /\ UNCHANGED <<envVars, cfgVars, siteVars, batch_pc>>

\* the lock is released to its first waiter, which resumes in acquire
LockGranted(t) ==
    /\ pc[t] = "lock_wait"
    /\ lock_owner = NoTask
    /\ lock_waiters # << >>
    /\ Head(lock_waiters) = t
    /\ lock_waiters' = Tail(lock_waiters)
    /\ AcquireBody(t)
    /\ UNCHANGED <<envVars, cfgVars, siteVars, batch_pc>>

\* asyncio.sleep(wait_time) in acquire is over
LimiterWake(t) ==
    /\ pc[t] = "limiter_sleep"
    /\ timer[t] = 0
    /\ RecordRequest(TRUE)
    /\ BeginExecute(t)
    /\ UNCHANGED <<envVars, cfgVars, siteVars, batch_pc, lock_waiters, timer>>

\* variant: a response with a status outside 200..299 raises in the
\* operation, as an exchange that fails does
HttpRespondRaiseForStatus(t) ==
    /\ pc[t] = "awaiting"
    /\ ~NoHost(target[t])
    /\ IF Serve(target[t]).status \in 200..299
       THEN /\ outcome' = [outcome EXCEPT ![t] = ReturnValue(Serve(target[t]))]
            /\ succeeded' = [succeeded EXCEPT ![t] = TRUE]
            /\ pc' = [pc EXCEPT ![t] = "fetch_return"]
            /\ UNCHANGED <<raised, delays, timer>>
       ELSE IF IsLastAttempt(attempt[t])
       THEN /\ raised' = [raised EXCEPT ![t] = TRUE]
            /\ outcome' = [outcome EXCEPT ![t] = FetchFailure]
            /\ succeeded' = [succeeded EXCEPT ![t] = TRUE]
            /\ pc' = [pc EXCEPT ![t] = "fetch_return"]
            /\ UNCHANGED <<delays, timer>>
       ELSE /\ delays' = [delays EXCEPT ![t] = Append(delays[t], BackoffDelay(attempt[t]))]
            /\ timer' = [timer EXCEPT ![t] = BackoffDelay(attempt[t])]
            /\ pc' = [pc EXCEPT ![t] = "backoff"]
            /\ UNCHANGED <<raised, outcome, succeeded>>
    /\ answered' = [answered EXCEPT ![t] = TRUE]
    /\ root_reply' = IF phase[t] = "root"
                     THEN [root_reply EXCEPT ![t] = Serve(target[t])]
                     ELSE root_reply
    /\ UNCHANGED <<cfgVars, siteVars, batch_pc, lockVars, limVars, getVars, attempt, calls>>

\* the exchange completes: execute returns what the operation returned
HttpRespond(t) ==
    /\ pc[t] = "awaiting"
    /\ ~NoHost(target[t])
    /\ outcome' = [outcome EXCEPT ![t] = ReturnValue(Serve(target[t]))]
    /\ succeeded' = [succeeded EXCEPT ![t] = TRUE]
    /\ answered' = [answered EXCEPT ![t] = TRUE]
    /\ root_reply' = IF phase[t] = "root"
                     THEN [root_reply EXCEPT ![t] = Serve(target[t])]
                     ELSE root_reply
    /\ pc' = [pc EXCEPT ![t] = "fetch_return"]
    /\ UNCHANGED <<cfgVars, siteVars, batch_pc, lockVars, limVars, getVars,
                   attempt, calls, delays, raised, timer>>

\* the operation raises (timeout, connection error, too many redirects)
HttpFail(t) ==
    /\ pc[t] = "awaiting"
    /\ MayFail(target[t])
    /\ IF IsLastAttempt(attempt[t])
       THEN /\ raised' = [raised EXCEPT ![t] = TRUE]
            /\ outcome' = [outcome EXCEPT ![t] = FetchFailure]
            /\ pc' = [pc EXCEPT ![t] = "fetch_return"]
            /\ UNCHANGED <<delays, timer>>
       ELSE /\ delays' = [delays EXCEPT ![t] = Append(delays[t], BackoffDelay(attempt[t]))]
            /\ timer' = [timer EXCEPT ![t] = BackoffDelay(attempt[t])]
            /\ pc' = [pc EXCEPT ![t] = "backoff"]
            /\ UNCHANGED <<raised, outcome>>
    /\ UNCHANGED <<envVars, cfgVars, siteVars, batch_pc, lockVars, limVars, getVars, attempt, calls, succeeded>>

\* variant: the next attempt goes through the limiter again
BackoffWakeThroughLimiter(t) ==
    /\ pc[t] = "backoff"
    /\ timer[t] = 0
    /\ pc' = [pc EXCEPT ![t] = "call_fetch"]
    /\ UNCHANGED <<envVars, cfgVars, siteVars, batch_pc, lockVars, limVars, getVars, retryVars,
                   outcome, timer>>

\* asyncio.sleep(delay) in execute is over: the next attempt
BackoffWake(t) ==
    /\ pc[t] = "backoff"
    /\ timer[t] = 0
    /\ attempt' = [attempt EXCEPT ![t] = attempt[t] + 1]
    /\ calls' = [calls EXCEPT ![t] = calls[t] + 1]
    /\ IssueGet
    /\ pc' = [pc EXCEPT ![t] = "awaiting"]
    /\ UNCHANGED <<envVars, cfgVars, siteVars, batch_pc, lockVars, limVars, delays, raised, succeeded,
                   outcome, timer>>

\* one tick of time passes
Tick ==
    /\ timer' = [t \in Tasks |-> Max(0, timer[t] - 1)]
    /\ age' = Min(interval, age + 1)
    /\ acq_age' = Min(interval, acq_age + 1)
    /\ get_age' = Min(interval, get_age + 1)
    /\ UNCHANGED <<envVars, cfgVars, siteVars, batch_pc, lockVars, retryVars, outcome, pc,
                   acq_any, acq_gap_ok, first_waited, get_any, get_gap_ok>>

\* ------------------------------------------------------------------------
\* FeedFinder._check_feed_url
\* ------------------------------------------------------------------------

NoFeed == [url |-> NoValue, type |-> NoValue, title |-> NoValue]

\* variant: the body is searched as it is, not lowercased
FeedTypeCaseSensitive(content) == IF Contains(content, "atom") THEN "atom" ELSE "rss"

\* 'atom' if 'atom' in content.lower() else 'rss'
FeedType(content) == IF Contains(Lower(content), "atom") THEN "atom" ELSE "rss"

\* what _check_feed_url does with the value _fetch_url returned:
\* kind "feed" (a dict is returned), "none" (None is returned) or "raise"
CheckFeed(url, out) ==
    IF out.none
    THEN [kind |-> "raise", error |-> TypeError, feed |-> NoFeed]
    ELSE IF out.status # HTTP_OK \/ out.content = ""
    THEN [kind |-> "none", error |-> NoValue, feed |-> NoFeed]
    ELSE LET feed == Parse(out.content)
         IN  IF feed.raises
             THEN [kind |-> "raise", error |-> ParseError, feed |-> NoFeed]
             ELSE IF feed.bozo = 0 /\ feed.feed
             THEN [kind |-> "feed", error |-> NoValue,
                   feed |-> [url |-> url, type |-> FeedType(out.content), title |-> feed.title]]
             ELSE [kind |-> "none", error |-> NoValue, feed |-> NoFeed]

\* ------------------------------------------------------------------------
\* FeedFinder._find_feeds_in_html: the two loops over the page's elements
\* ------------------------------------------------------------------------

FetchStep(ph, i, url) == [kind |-> "fetch", phase |-> ph, idx |-> i, target |-> url, error |-> NoValue]

FinishStep == [kind |-> "finish", phase |-> "end", idx |-> 0, target |-> NoValue, error |-> NoValue]

\* variant: the exception's text is not recorded
ErrorStepNoMessage(e) == [kind |-> "error", phase |-> "end", idx |-> 0, target |-> NoValue, error |-> NoValue]

ErrorStep(e) == [kind |-> "error", phase |-> "end", idx |-> 0, target |-> NoValue, error |-> e]

\* if link.get('type') in ['application/rss+xml', 'application/atom+xml']
LinkMatches(el) == el.tag = "link" /\ el.type \in FEED_LINK_TYPES

\* variant: the anchor text is not lowercased before the words are looked for
AnchorMatchesCaseSensitive(el) ==
    /\ el.tag = "a"
    /\ el.href # NoValue
    /\ \E word \in FEED_WORDS : Contains(el.text, word)

\* soup.find_all('a', href=True) and any(word in text for word in [...])
AnchorMatches(el) ==
    /\ el.tag = "a"
    /\ el.href # NoValue
    /\ \E word \in FEED_WORDS : Contains(Lower(el.text), word)

\* link.get('href', '')
HrefOrEmpty(el) == IF el.href = NoValue THEN "" ELSE el.href

\* the element a loop takes up
Wanted(ph, el) == IF ph = "links" THEN LinkMatches(el) ELSE AnchorMatches(el)

\* the first element at or after i that loop ph takes up, 0 if none
NextWanted(elems, ph, i) ==
    LET js == {j \in i..Len(elems) : Wanted(ph, elems[j])}
    IN  IF js = {} THEN 0 ELSE CHOOSE j \in js : \A k \in js : j <= k

\* feed_url = urljoin(url, href) for element i of loop ph, then _check_feed_url
\* (the link loop's `if feed_url:` always passes: url starts with a scheme,
\* and urljoin of a non-empty base is never empty)
Candidate(url, elems, ph, i) ==
    LET joined == urljoin(url, HrefOrEmpty(elems[i]))
    IN  IF joined.raised THEN ErrorStep(joined.url) ELSE FetchStep(ph, i, joined.url)

\* the next _check_feed_url call of the loops, from element i of loop ph on:
\* the loop over the link elements, then the loop over the anchors
ScanNext(url, elems, ph, i) ==
    LET j == NextWanted(elems, ph, i)
        k == NextWanted(elems, "anchors", 1)
    IN  IF j # 0 THEN Candidate(url, elems, ph, j)
        ELSE IF ph = "links" /\ k # 0 THEN Candidate(url, elems, "anchors", k)
        ELSE FinishStep

\* ------------------------------------------------------------------------
\* FeedFinder._discover_feeds
\* ------------------------------------------------------------------------

\* for path in self.COMMON_PATHS: feed_url = urljoin(url, path)
KnownFetch(url, i) ==
    LET joined == urljoin(url, COMMON_PATHS[i])
    IN  IF joined.raised THEN ErrorStep(joined.url) ELSE FetchStep("known", i, joined.url)

\* variant: the fallback runs whatever the known paths gave
AlwaysFallback(feeds) == TRUE

\* if not result['feeds']
NeedsFallback(feeds) == feeds = << >>

\* variant: the loop over COMMON_PATHS is left at the first hit
AfterKnownFirstHit(url, feeds, i) ==
    IF feeds # << >> THEN FinishStep
    ELSE IF i < Len(COMMON_PATHS) THEN KnownFetch(url, i + 1)
    ELSE FetchStep("root", 0, url)

\* the loop over COMMON_PATHS goes on after path i, or the function goes on after it
AfterKnown(url, feeds, i) ==
    IF i < Len(COMMON_PATHS) THEN KnownFetch(url, i + 1)
    ELSE IF NeedsFallback(feeds) THEN FetchStep("root", 0, url)
    ELSE FinishStep

\* result['feeds'].append(feed_info)
AppendFeed(feeds, feed_info) == Append(feeds, feed_info)

\* variant: a discovery that ended in ERROR is not collected
CollectSuccessOnly(rs, r) == IF r.status = "error" THEN rs ELSE Append(rs, r)

\* results.append(await f)
Collect(rs, r) == Append(rs, r)

\* the task goes on to its next _fetch_url call, or _discover_feeds returns
\* res (with the exception recorded when one was raised inside the try)
Proceed(t, step, res) ==
    IF step.kind = "fetch"
    THEN /\ pc' = [pc EXCEPT ![t] = "call_fetch"]
         /\ phase' = [phase EXCEPT ![t] = step.phase]
         /\ idx' = [idx EXCEPT ![t] = step.idx]
         /\ target' = [target EXCEPT ![t] = step.target]
         /\ fetch_log' = [fetch_log EXCEPT ![t] =
                Append(fetch_log[t], [url |-> step.target, phase |-> step.phase])]
         /\ result' = [result EXCEPT ![t] = res]
         /\ UNCHANGED results
    ELSE LET final == IF step.kind = "error"
                      THEN [res EXCEPT !.status = "error", !.error = step.error]
                      ELSE res
         IN  /\ pc' = [pc EXCEPT ![t] = "done"]
             /\ result' = [result EXCEPT ![t] = final]
             /\ results' = Collect(results, final)
             /\ UNCHANGED <<phase, idx, target, fetch_log>>

\* _fetch_url has returned to its caller: the history of its execute is dropped
ForgetFetch(t) ==
    /\ outcome' = [outcome EXCEPT ![t] = NoOutcome]
    /\ attempt' = [attempt EXCEPT ![t] = 0]
    /\ calls' = [calls EXCEPT ![t] = 0]
    /\ delays' = [delays EXCEPT ![t] = << >>]
    /\ raised' = [raised EXCEPT ![t] = FALSE]
    /\ succeeded' = [succeeded EXCEPT ![t] = FALSE]

\* _discover_feeds up to its first _fetch_url call
StartDiscover(t) ==
    /\ pc[t] = "start"
    /\ \E url \in {_clean_url(urls[t])} :
           \E step \in {KnownFetch(url, 1)} :
               Proceed(t, step, [url |-> url, feeds |-> << >>, status |-> "success", error |-> NoValue])
    /\ UNCHANGED <<envVars, cfgVars, lockVars, limVars, getVars, retryVars, timer, outcome,
                   html_feeds, page, hit_log, batch_pc>>

\* _check_feed_url returns into the loop over COMMON_PATHS
ContinueKnown(t) ==
    /\ pc[t] = "fetch_return"
    /\ phase[t] = "known"
    /\ \E chk \in {CheckFeed(target[t], outcome[t])} :
       \E res \in {IF chk.kind = "feed"
                   THEN [result[t] EXCEPT !.feeds = AppendFeed(result[t].feeds, chk.feed)]
                   ELSE result[t]} :
       \E step \in {IF chk.kind = "raise" THEN ErrorStep(chk.error)
                    ELSE AfterKnown(res.url, res.feeds, idx[t])} :
           /\ Proceed(t, step, res)
           /\ hit_log' = [hit_log EXCEPT ![t] =
                  IF chk.kind = "feed"
                  THEN Append(hit_log[t], [url |-> target[t], phase |-> phase[t]])
                  ELSE hit_log[t]]
    /\ ForgetFetch(t)
    /\ UNCHANGED <<envVars, cfgVars, lockVars, limVars, getVars, timer,
                   html_feeds, page, batch_pc>>

\* _fetch_url(session, url) of the fallback returns: the page is scanned
ContinueRoot(t) ==
    /\ pc[t] = "fetch_return"
    /\ phase[t] = "root"
    /\ \E out \in {outcome[t]} :
       \E scan \in {out.status = HTTP_OK /\ out.content # ""} :
       \E step \in {IF out.none THEN ErrorStep(TypeError)
                    ELSE IF scan THEN ScanNext(result[t].url, Soup(out.content), "links", 1)
                    ELSE FinishStep} :
           /\ Proceed(t, step, result[t])
           /\ page' = [page EXCEPT ![t] = IF ~out.none /\ scan THEN out.content ELSE page[t]]
    /\ html_feeds' = [html_feeds EXCEPT ![t] = << >>]
    /\ ForgetFetch(t)
    /\ UNCHANGED <<envVars, cfgVars, lockVars, limVars, getVars, timer, hit_log, batch_pc>>

\* _check_feed_url returns into one of the loops of _find_feeds_in_html
ContinueHtml(t) ==
    /\ pc[t] = "fetch_return"
    /\ phase[t] \in {"links", "anchors"}
    /\ \E chk \in {CheckFeed(target[t], outcome[t])} :
       \E found \in {IF chk.kind = "feed" THEN AppendFeed(html_feeds[t], chk.feed)
                     ELSE html_feeds[t]} :
       \E step \in {IF chk.kind = "raise" THEN ErrorStep(chk.error)
                    ELSE ScanNext(result[t].url, Soup(page[t]), phase[t], idx[t] + 1)} :
       \E res \in {IF step.kind = "finish"
                   THEN [result[t] EXCEPT !.feeds = result[t].feeds \o found]
                   ELSE result[t]} :
           /\ Proceed(t, step, res)
           /\ html_feeds' = [html_feeds EXCEPT ![t] = found]
           /\ hit_log' = [hit_log EXCEPT ![t] =
                  IF chk.kind = "feed"
                  THEN Append(hit_log[t], [url |-> target[t], phase |-> phase[t]])
                  ELSE hit_log[t]]
    /\ ForgetFetch(t)
    /\ UNCHANGED <<envVars, cfgVars, lockVars, limVars, getVars, timer, page, batch_pc>>

\* ------------------------------------------------------------------------
\* FeedFinder._process_urls
\* ------------------------------------------------------------------------

\* every task is complete and collected: return results
BatchReturn ==
    /\ batch_pc = "running"
    /\ \A t \in Tasks : pc[t] = "done"
    /\ batch_pc' = "returned"
    /\ UNCHANGED <<envVars, cfgVars, lockVars, limVars, getVars, retryVars, timer, outcome, pc, siteVars>>

Next ==
    \/ \E t \in Tasks : StartDiscover(t)
    \/ \E t \in Tasks : Acquire(t)
    \/ \E t \in Tasks : LockGranted(t)
    \/ \E t \in Tasks : LimiterWake(t)
    \/ \E t \in Tasks : HttpRespond(t)
    \/ \E t \in Tasks : HttpFail(t)
    \/ \E t \in Tasks : BackoffWake(t)
    \/ \E t \in Tasks : ContinueKnown(t)
    \/ \E t \in Tasks : ContinueRoot(t)
    \/ \E t \in Tasks : ContinueHtml(t)
    \/ BatchReturn
    \/ Tick

\* the input lists explored
UrlLists ==
    { <<"a.io/">>, <<"b.io">>, <<"http://c.io/">>, <<"e.io//">>, <<"/">>,
      <<"d.io", "https://d.io/">>, <<"d.io", "http://c.io">>, <<"[", "d.io", "d.io">> }

Init == InitWith(UrlLists, 0..MaxRetriesBound, 1..MaxBaseDelay, 1..MaxInterval)

Spec == Init /\ [][Next]_vars

\* the input lists explored for termination: a site whose exchanges can
\* fail at transport level, are retried, and which falls back to HTML; and
\* two tasks fetching concurrently through the limiter
LiveUrlLists == { <<"http://c.io/">>, <<"d.io", "d.io">> }

LiveInit == InitWith(LiveUrlLists, {0, MaxRetriesBound}, {MaxBaseDelay}, {MaxInterval})

\* the positions a task can have in an input list
TaskIds == UNION {1..Len(list) : list \in LiveUrlLists}

\* the steps the event loop runs for task t when it is ready
TaskStep(t) ==
    /\ t \in Tasks
    /\ \/ StartDiscover(t)
       \/ Acquire(t)
       \/ LockGranted(t)
       \/ LimiterWake(t)
       \/ BackoffWake(t)
       \/ ContinueKnown(t)
       \/ ContinueRoot(t)
       \/ ContinueHtml(t)

\* the exchange of task t returns or fails (the session's total timeout)
ExchangeEnds(t) == t \in Tasks /\ (HttpRespond(t) \/ HttpFail(t))

\* the event loop runs every ready task, time passes, and every exchange ends
Fairness ==
    /\ \A t \in TaskIds : WF_vars(TaskStep(t))
    /\ \A t \in TaskIds : WF_vars(ExchangeEnds(t))
    /\ WF_vars(Tick)
    /\ WF_vars(BatchReturn)

LiveSpec == LiveInit /\ [][Next]_vars /\ Fairness

\* ------------------------------------------------------------------------
\* Vocabulary of the properties
\* ------------------------------------------------------------------------

IsPhase(e, ph) == e.phase = ph

UrlsOf(log) == [i \in 1..Len(log) |-> log[i].url]

\* the _fetch_url calls task t made in phase ph, in call order
FetchesIn(t, ph) ==
    LET Test(e) == IsPhase(e, ph) IN UrlsOf(SelectSeq(fetch_log[t], Test))

\* the urls task t's _check_feed_url accepted in phase ph, in call order
HitsIn(t, ph) ==
    LET Test(e) == IsPhase(e, ph) IN UrlsOf(SelectSeq(hit_log[t], Test))

\* the urls _check_feed_url accepted in the two loops of _find_feeds_in_html
HtmlHits(t) ==
    LET Test(e) == e.phase \in {"links", "anchors"} IN UrlsOf(SelectSeq(hit_log[t], Test))

RootFetched(t) == FetchesIn(t, "root") # << >>

\* the known paths resolved against the site url, in list order
KnownUrls(url) == [i \in 1..Len(COMMON_PATHS) |-> urljoin(url, COMMON_PATHS[i]).url]

Done(t) == pc[t] = "done"

Succeeded(t) == Done(t) /\ result[t].status = "success"

\* how often u occurs in the sequence us
Count(us, u) == Cardinality({i \in 1..Len(us) : us[i] = u})

ExpectedDelays(n) == [i \in 1..n |-> base_delay * Pow2(i - 1)]

\* ------------------------------------------------------------------------
\* C1: _fetch_url never raises and always returns a pair: the body and
\* status of a completed response, or the failure marker ('', 0), for every
\* max_retries and every behaviour of the HTTP operation.
\* Stated as in the claim; refuted by max_retries = 0, where execute runs
\* no attempt and _fetch_url returns None.
\* ------------------------------------------------------------------------
C1_FetchReturnsOutcome ==
    \A t \in Tasks :
        pc[t] = "fetch_return" =>
            /\ ~outcome[t].none
            /\ \/ outcome[t] = FetchFailure
               \/ succeeded[t] /\ outcome[t] = Serve(target[t])

\* ------------------------------------------------------------------------
\* C2: _process_urls returns exactly one result per input url, the result
\* urls being the normalized inputs as a multiset; a discovery that ends
\* in ERROR neither prevents nor alters the result of a sibling: every
\* finished discovery is collected once, as the task produced it, and a
\* successful one holds exactly the feeds its own checks accepted.
\* ------------------------------------------------------------------------
C2_OneResultPerInput ==
    /\ Len(results) = Cardinality({t \in Tasks : Done(t)})
    /\ \A t \in Tasks : Done(t) => \E i \in 1..Len(results) : results[i] = result[t]
    /\ \A t \in Tasks :
           Succeeded(t) => UrlsOf(result[t].feeds) = HitsIn(t, "known") \o HtmlHits(t)
    /\ batch_pc = "returned" =>
           /\ Len(results) = Len(urls)
           /\ \A t \in Tasks :
                  Count(UrlsOf(results), _clean_url(urls[t]))
                      = Cardinality({u \in Tasks : _clean_url(urls[u]) = _clean_url(urls[t])})

\* the batch has returned; the first discovery to finish ended in ERROR and
\* its sibling went on to find its feed
C2_Witness ==
    /\ batch_pc = "returned"
    /\ Len(results) = 2
    /\ results[1].status = "error"
    /\ results[2].status = "success"
    /\ results[2].feeds # << >>

\* ------------------------------------------------------------------------
\* C3: any two consecutive completions of acquire, over all callers, are
\* at least 1/rate apart, and the first acquire completes without waiting.
\* ------------------------------------------------------------------------
C3_AcquireSpacing == acq_gap_ok /\ ~first_waited

\* a task is in its second fetch while another sleeps in acquire
C3_Witness ==
    \E t, u \in Tasks :
        /\ t # u
        /\ pc[t] = "awaiting"
        /\ Len(fetch_log[t]) >= 2
        /\ pc[u] = "limiter_sleep"
        /\ acq_any

\* ------------------------------------------------------------------------
\* C4: any two GETs handed to the transport, every attempt of every fetch
\* counted, retries included, are at least 1/requests_per_second apart.
\* Stated as in the claim; refuted by a retry, which is issued after the
\* backoff sleep without passing through the limiter.
\* ------------------------------------------------------------------------
C4_AllRequestsSpaced == get_gap_ok

\* ------------------------------------------------------------------------
\* C5: for max_retries >= 1, execute on an operation that fails on every
\* invocation invokes it exactly max_retries times, sleeps
\* base_delay * 2^i after failed attempt i (i = 0 .. max_retries - 2), not
\* after the last one, and then raises to its caller.
\* ------------------------------------------------------------------------
C5_RetryExhaustion ==
    \A t \in Tasks :
        /\ pc[t] = "backoff" =>
               /\ calls[t] = Len(delays[t])
               /\ calls[t] < max_retries
               /\ delays[t] = ExpectedDelays(calls[t])
               /\ timer[t] <= delays[t][Len(delays[t])]
        /\ (pc[t] = "fetch_return" /\ max_retries >= 1 /\ ~succeeded[t]) =>
               /\ raised[t]
               /\ calls[t] = max_retries
               /\ delays[t] = ExpectedDelays(max_retries - 1)

\* three attempts failed: execute slept base_delay, then 2 * base_delay, and raised
C5_Witness ==
    \E t \in Tasks :
        /\ pc[t] = "fetch_return"
        /\ raised[t]
        /\ calls[t] = 3
        /\ delays[t] = <<base_delay, 2 * base_delay>>

\* ------------------------------------------------------------------------
\* C6: when the operation fails on attempts 1..k-1 and succeeds on attempt
\* k <= max_retries, execute returns the value of attempt k, raises
\* nothing and never invokes the operation again; _fetch_url returns that
\* body and status.
\* ------------------------------------------------------------------------
C6_RetryMasksFailure ==
    \A t \in Tasks :
        succeeded[t] =>
            /\ pc[t] = "fetch_return"
            /\ ~raised[t]
            /\ outcome[t] = Serve(target[t])
            /\ calls[t] = Len(delays[t]) + 1
            /\ calls[t] <= max_retries

\* attempts 1 and 2 failed, attempt 3 returned a 200
C6_Witness ==
    \E t \in Tasks :
        /\ pc[t] = "fetch_return"
        /\ succeeded[t]
        /\ calls[t] = 3
        /\ Len(delays[t]) = 2
        /\ outcome[t].status = HTTP_OK

\* ------------------------------------------------------------------------
\* C7: the fallback (the fetch of the site's root url and its scan) is
\* executed if and only if the loop over the known paths finished with no
\* feed; a site with a known-path hit never has its root url fetched.
\* ------------------------------------------------------------------------
C7_FallbackIffNoKnownFeed ==
    \A t \in Tasks :
        /\ RootFetched(t) =>
               /\ HitsIn(t, "known") = << >>
               /\ FetchesIn(t, "known") = KnownUrls(result[t].url)
        /\ (FetchesIn(t, "links") # << >> \/ FetchesIn(t, "anchors") # << >>) => RootFetched(t)
        /\ (Succeeded(t) /\ HitsIn(t, "known") = << >>) => RootFetched(t)

\* a.io has two known-path hits and a homepage that links feeds: the run
\* ends without the root url having been fetched
C7_Witness ==
    \E t \in Tasks :
        /\ Succeeded(t)
        /\ result[t].url = "https://a.io"
        /\ Len(HitsIn(t, "known")) = 2
        /\ Soup(Serve(result[t].url).content) # << >>
        /\ ~RootFetched(t)

\* ------------------------------------------------------------------------
\* C8: in a run that does not end in ERROR every known path is fetched
\* exactly once, in list order, whether or not earlier paths validated,
\* and the known-path feeds of the result are the paths that validated,
\* in list order.
\* ------------------------------------------------------------------------
C8_AllKnownPathsProbed ==
    \A t \in Tasks :
        Succeeded(t) =>
            /\ FetchesIn(t, "known") = KnownUrls(result[t].url)
            /\ HitsIn(t, "known") # << >> =>
                   LET Valid(u) == Count(HitsIn(t, "known"), u) > 0
                   IN  UrlsOf(result[t].feeds) = SelectSeq(KnownUrls(result[t].url), Valid)

\* /atom.xml and /rss.xml both validated: two feeds, in list order
C8_Witness ==
    \E t \in Tasks :
        /\ Succeeded(t)
        /\ UrlsOf(result[t].feeds) = <<"https://a.io/atom.xml", "https://a.io/rss.xml">>
        /\ Len(FetchesIn(t, "known")) = Len(COMMON_PATHS)

\* ------------------------------------------------------------------------
\* C9: a site where every HTTP attempt of every fetch fails gets status
\* SUCCESS with no feeds and no error message, not ERROR.
\* Stated as in the claim; refuted with max_retries = 0 (see C1): no
\* attempt is made, _fetch_url returns None and the discovery ends in ERROR.
\* ------------------------------------------------------------------------
C9_UnreachableIsSuccess ==
    \A t \in Tasks :
        (Done(t) /\ fetch_log[t] # << >> /\ ~answered[t]) =>
            /\ result[t].status = "success"
            /\ result[t].feeds = << >>
            /\ result[t].error = NoValue

\* ------------------------------------------------------------------------
\* C10: when the known paths gave no feed and the root fetch returned 200
\* with a body, the result's feeds are exactly the scan candidates that
\* validated, in scan order: first every <link> of type
\* application/rss+xml or application/atom+xml in document order, then
\* every <a> with an href whose lowercased text contains rss, feed, atom or
\* subscribe, with no deduplication.
\* As claimed it fails: a failure raised in the fallback (urljoin on an href
\* that cannot be resolved) ends the run in ERROR and the feeds validated
\* before it are dropped.  It holds of the runs that do not end in ERROR.
\* ------------------------------------------------------------------------
RootReturnedPage(t) ==
    /\ root_reply[t].status = HTTP_OK
    /\ root_reply[t].content # ""
    /\ root_reply[t].content # NoValue

\* the claim as stated
C10_HtmlFeedsAreValidatedCandidates ==
    \A t \in Tasks :
        (Done(t) /\ HitsIn(t, "known") = << >> /\ RootReturnedPage(t)) =>
            UrlsOf(result[t].feeds) = HtmlHits(t)

ClaimedLink(el) == el.tag = "link" /\ el.type \in {"application/rss+xml", "application/atom+xml"}

ClaimedAnchor(el) ==
    /\ el.tag = "a"
    /\ el.href # NoValue
    /\ \E word \in {"rss", "feed", "atom", "subscribe"} : Contains(Lower(el.text), word)

Resolved(url, els) == [i \in 1..Len(els) |-> urljoin(url, HrefOrEmpty(els[i])).url]

\* the candidates in the claimed order: the links, then the anchors
ClaimedCandidates(url, elems) ==
    Resolved(url, SelectSeq(elems, ClaimedLink)) \o Resolved(url, SelectSeq(elems, ClaimedAnchor))

\* the claim for the runs that do not end in ERROR: every claimed candidate
\* is checked, in the claimed order, and the feeds are the accepted ones
C10_HtmlFeedsWhenNoError ==
    \A t \in Tasks :
        (Succeeded(t) /\ HitsIn(t, "known") = << >> /\ RootReturnedPage(t)) =>
            /\ FetchesIn(t, "links") \o FetchesIn(t, "anchors")
                   = ClaimedCandidates(result[t].url, Soup(root_reply[t].content))
            /\ UrlsOf(result[t].feeds) = HtmlHits(t)

\* c.io serves no known path; its page holds one anchor, "Subscribe", to a
\* valid feed: the result is exactly that feed
C10_Witness ==
    \E t \in Tasks :
        /\ Succeeded(t)
        /\ HitsIn(t, "known") = << >>
        /\ RootReturnedPage(t)
        /\ FetchesIn(t, "anchors") = <<"http://c.io/main.rss">>
        /\ UrlsOf(result[t].feeds) = <<"http://c.io/main.rss">>

\* ------------------------------------------------------------------------
\* C11: _check_feed_url returns None for every fetch outcome whose status
\* is not 200 or whose body is empty, whatever the body holds; it returns a
\* feed only when the status is 200, the body is not empty, the parser
\* reports no malformation (bozo 0) and a feed-level object is present;
\* the feed's type is then atom iff the body contains "atom" in any
\* letter case, rss otherwise.
\* ------------------------------------------------------------------------

\* task t is at the return of a _fetch_url call made by _check_feed_url,
\* and the step taken is t's
CheckReturns(t) ==
    /\ pc[t] = "fetch_return"
    /\ phase[t] # "root"
    /\ pc'[t] # pc[t]

\* the feeds list the call's result is appended to, before and after the step
FoundBefore(t) == IF phase[t] = "known" THEN result[t].feeds ELSE html_feeds[t]

FoundAfter(t) == IF phase[t] = "known" THEN result'[t].feeds ELSE html_feeds'[t]

\* "atom" occurs in the body in some letter case
HasAtomAnyCase(body) ==
    \E i \in 1..Len(body) :
        /\ i + 3 <= Len(body)
        /\ SubSeq(body, i, i) \in {"a", "A"}
        /\ SubSeq(body, i + 1, i + 1) \in {"t", "T"}
        /\ SubSeq(body, i + 2, i + 2) \in {"o", "O"}
        /\ SubSeq(body, i + 3, i + 3) \in {"m", "M"}

\* the outcome is one the claim lets become a feed
ClaimedValid(out) ==
    /\ out.status = 200
    /\ out.content # ""
    /\ ~Parse(out.content).raises
    /\ Parse(out.content).bozo = 0
    /\ Parse(out.content).feed

C11_ValidatorVerdict ==
    [][\A t \in Tasks :
          CheckReturns(t) =>
              /\ (~outcome[t].none /\ (outcome[t].status # 200 \/ outcome[t].content = "")) =>
                     /\ FoundAfter(t) = FoundBefore(t)
                     /\ result'[t].error \notin {TypeError, ParseError}
              /\ FoundAfter(t) # FoundBefore(t) =>
                     /\ ~outcome[t].none
                     /\ ClaimedValid(outcome[t])
                     /\ Len(FoundAfter(t)) = Len(FoundBefore(t)) + 1
                     /\ SubSeq(FoundAfter(t), 1, Len(FoundBefore(t))) = FoundBefore(t)
                     /\ FoundAfter(t)[Len(FoundAfter(t))].url = target[t]
                     /\ FoundAfter(t)[Len(FoundAfter(t))].type
                            = (IF HasAtomAnyCase(outcome[t].content) THEN "atom" ELSE "rss")
    ]_vars

\* a.io: /feed answered 404 and gave nothing, /atom.xml (whose body spells
\* "Atom") became a feed of type atom, /rss.xml one of type rss
C11_Witness ==
    \E t \in Tasks :
        /\ Succeeded(t)
        /\ Count(FetchesIn(t, "known"), "https://a.io/feed") = 1
        /\ Len(result[t].feeds) = 2
        /\ result[t].feeds[1].url = "https://a.io/atom.xml"
        /\ result[t].feeds[1].type = "atom"
        /\ result[t].feeds[2].type = "rss"

\* ------------------------------------------------------------------------
\* C12: a fetch whose exchange completes with a non-2xx status is treated
\* as a transient failure: retried up to max_retries times with backoff,
\* the fetch returning ('', 0) when every attempt is non-2xx.
\* As claimed it fails: session.get does not raise for a status, so the
\* first completed response, whatever its status, is returned by execute
\* and by _fetch_url with its body and status, and nothing is retried.
\* Only an exchange that raises is retried.
\* ------------------------------------------------------------------------

\* the fetch of task t has returned after an exchange that completed with
\* a status outside 200..299
ReturnedNon2xx(t) ==
    /\ pc[t] = "fetch_return"
    /\ succeeded[t]
    /\ Serve(target[t]).status \notin 200..299

\* the claim as stated
C12_Non2xxIsRetried ==
    \A t \in Tasks :
        ReturnedNon2xx(t) =>
            /\ outcome[t] = FetchFailure
            /\ calls[t] = max_retries

\* what holds instead: the non-2xx response is the value of the fetch, and
\* the attempt that received it is the last one; every retry before it
\* followed an exchange that raised
C12_Non2xxIsReturned ==
    \A t \in Tasks :
        ReturnedNon2xx(t) =>
            /\ outcome[t] = Serve(target[t])
            /\ outcome[t] # FetchFailure
            /\ ~raised[t]
            /\ calls[t] = Len(delays[t]) + 1

\* one exchange with c.io raised, the retry completed with a 404: the 404
\* is returned though a third attempt was allowed
C12_Witness ==
    \E t \in Tasks :
        /\ ReturnedNon2xx(t)
        /\ max_retries = 3
        /\ calls[t] = 2
        /\ outcome[t].status = 404
        /\ outcome[t].content = NotFoundBody

\* ------------------------------------------------------------------------
\* C13: for an input that does not start with http:// or https://,
\* _clean_url returns https:// followed by the input without its trailing
\* '/', so the result starts with https:// and does not end with '/'; an
\* input that carries a scheme keeps it and only loses the trailing '/'.
\* As claimed it fails on an input that is empty or made of '/' only:
\* rstrip works on the whole text, scheme prefix included, and leaves
\* "https:".  It holds of every other input.
\* ------------------------------------------------------------------------

\* s without the '/' characters at its end
TrimTrailing(s) ==
    LET keep == {i \in 0..Len(s) : i = 0 \/ SubSeq(s, i, i) # "/"}
    IN  SubSeq(s, 1, CHOOSE n \in keep : \A m \in keep : m <= n)

HasScheme(u) ==
    \/ Len(u) >= 7 /\ SubSeq(u, 1, 7) = "http://"
    \/ Len(u) >= 8 /\ SubSeq(u, 1, 8) = "https://"

\* task t has normalized its input: result[t].url is _clean_url(urls[t])
Normalized(t) == pc[t] # "start"

\* the claim as stated
C13_CleanUrlAsClaimed ==
    \A t \in Tasks :
        Normalized(t) =>
            IF HasScheme(urls[t])
            THEN result[t].url = TrimTrailing(urls[t])
            ELSE /\ result[t].url = "https://" \o TrimTrailing(urls[t])
                 /\ StartsWith(result[t].url, "https://")
                 /\ ~EndsWith(result[t].url, "/")

\* the claim for the inputs that hold more than '/' characters, and what
\* the others give
C13_CleanUrl ==
    \A t \in Tasks :
        Normalized(t) =>
            /\ ~EndsWith(result[t].url, "/")
            /\ HasScheme(urls[t]) => result[t].url = TrimTrailing(urls[t])
            /\ (~HasScheme(urls[t]) /\ TrimTrailing(urls[t]) # "") =>
                   /\ result[t].url = "https://" \o TrimTrailing(urls[t])
                   /\ StartsWith(result[t].url, "https://")
            /\ (~HasScheme(urls[t]) /\ TrimTrailing(urls[t]) = "") =>
                   result[t].url = "https:"

\* "e.io//" has become "https://e.io"
C13_Witness ==
    \E t \in Tasks :
        /\ Normalized(t)
        /\ urls[t] = "e.io//"
        /\ result[t].url = "https://e.io"

\* ------------------------------------------------------------------------
\* C14: in every result of _discover_feeds the status is error iff an
\* error message is present; the status is error only when an exception
\* was raised inside the try block, past _fetch_url and _check_feed_url's
\* own handling; a run without one returns success with error None, even
\* with no feeds.
\* ------------------------------------------------------------------------

\* the step taken returns task t's result
Returns(t) == pc[t] # "done" /\ pc'[t] = "done"

\* some url the task may hand to urljoin cannot be split: its own, or an
\* href of the page being scanned
SomeUrlInvalid(t) ==
    \/ SplitRaises(result'[t].url)
    \/ \E content \in {page[t], outcome[t].content} :
           \E i \in 1..Len(Soup(content)) : SplitRaises(HrefOrEmpty(Soup(content)[i]))

\* the value _fetch_url returned cannot be unpacked, or the parser raises on it
ValueRaises(t) ==
    \/ outcome[t].none
    \/ /\ phase[t] # "root"
       /\ outcome[t].status = 200
       /\ outcome[t].content # ""
       /\ Parse(outcome[t].content).raises

C14_ErrorIffMessage ==
    /\ [](\A t \in Tasks :
             Done(t) =>
                 /\ result[t].status \in {"success", "error"}
                 /\ result[t].status = "error" <=> result[t].error # NoValue)
    /\ [][\A t \in Tasks :
             Returns(t) =>
                 /\ result'[t].status = "error" =>
                        /\ result'[t].error \in {TypeError, ParseError, ValueError}
                        /\ result'[t].error = TypeError => outcome[t].none
                        /\ result'[t].error = ParseError => ValueRaises(t) /\ ~outcome[t].none
                        /\ result'[t].error = ValueError => SomeUrlInvalid(t)
                 /\ (~ValueRaises(t) /\ ~SomeUrlInvalid(t)) =>
                        /\ result'[t].status = "success"
                        /\ result'[t].error = NoValue
       ]_vars

\* two finished discoveries: one ended in error, with its message; the
\* other met no exception and found nothing: success, no message, no feeds
C14_Witness ==
    \E t, u \in Tasks :
        /\ Done(t)
        /\ result[t].status = "error"
        /\ result[t].error = ParseError
        /\ Done(u)
        /\ result[u].status = "success"
        /\ result[u].error = NoValue
        /\ result[u].feeds = << >>

\* ------------------------------------------------------------------------
\* C15: every result with status error has an empty feeds list, also when
\* the exception comes after known-path or HTML candidates have validated.
\* Stated as in the claim; refuted by an exception in the known-path loop
\* after a hit: the hit was appended to result['feeds'] itself and stays
\* there when the except clause sets the status.  (The feeds of the HTML
\* loops are in a local list and are lost with the exception.)
\* ------------------------------------------------------------------------
C15_ErrorHasNoFeeds ==
    \A t \in Tasks :
        (Done(t) /\ result[t].status = "error") => result[t].feeds = << >>

\* ------------------------------------------------------------------------
\* C16: in acquire the lock is held only for the read-check-write of the
\* timestamp, never while the caller sleeps: no task sleeps inside acquire
\* while owning the lock.
\* As claimed it fails: the sleep is inside `async with self._lock`.  What
\* holds is the opposite: a task sleeping in acquire always owns the lock,
\* the lock is owned by no one else, and the callers that arrive meanwhile
\* wait for the lock until the timestamp is written.
\* ------------------------------------------------------------------------

SleepsInAcquire(t) == pc[t] = "limiter_sleep"

\* the claim as stated
C16_LockNotHeldAcrossSleep ==
    \A t \in Tasks : ~(SleepsInAcquire(t) /\ lock_owner = t)

C16_LockHeldAcrossSleep ==
    /\ \A t \in Tasks : SleepsInAcquire(t) <=> lock_owner = t
    /\ \A t \in Tasks : pc[t] = "lock_wait" <=> (\E i \in 1..Len(lock_waiters) : lock_waiters[i] = t)

\* one task sleeps out the interval inside acquire, owning the lock, while
\* another waits for the lock
C16_Witness ==
    \E t, u \in Tasks :
        /\ SleepsInAcquire(t)
        /\ timer[t] > 0
        /\ lock_owner = t
        /\ pc[u] = "lock_wait"
        /\ lock_waiters = <<u>>

\* ------------------------------------------------------------------------
\* C17: at any moment at most one task is between the read of
\* last_request and the write of its new value inside acquire, for any
\* number of concurrent callers; no caller computes its wait from a
\* timestamp another caller is about to overwrite: while a task sleeps out
\* its wait no other task writes the timestamp, so the wait it computed
\* still completes the interval when it wakes.
\* ------------------------------------------------------------------------
C17_TimestampSerialized ==
    /\ [](Cardinality({t \in Tasks : SleepsInAcquire(t)}) <= 1)
    /\ [](\A t \in Tasks : SleepsInAcquire(t) => age + timer[t] >= interval)
    /\ [][\A t \in Tasks :
             (pc'[t] # pc[t] /\ pc[t] \in {"call_fetch", "lock_wait"} /\ pc'[t] # "lock_wait") =>
                 \A u \in Tasks : ~SleepsInAcquire(u)
       ]_vars

\* a task has slept out its wait and is about to write the timestamp;
\* the caller that came meanwhile has read nothing yet
C17_Witness ==
    \E t, u \in Tasks :
        /\ SleepsInAcquire(t)
        /\ timer[t] = 0
        /\ age = interval
        /\ lock_waiters = <<u>>
        /\ Len(fetch_log[u]) = 1

\* ------------------------------------------------------------------------
\* C18: there is a run in which a feed url reachable both as a known path
\* and through a link of the homepage is validated twice and appears twice
\* in the result's feeds, once from each phase.
\* There is none: the homepage is fetched only when the known paths gave
\* no feed, so no result holds feeds of both phases.  The claim is refuted
\* on the site it describes (a.io: /atom.xml and /rss.xml validate as known
\* paths and the homepage links both), and its negation is checked in
\* every reachable state.  A url appears twice only when the homepage
\* refers to it twice.
\* ------------------------------------------------------------------------

\* the hrefs of the homepage of the site of task t, resolved
LinkedFromHome(t) ==
    {urljoin(result[t].url, HrefOrEmpty(Soup(Serve(result[t].url).content)[i])).url :
         i \in 1..Len(Soup(Serve(result[t].url).content))}

\* task t's site is one the claim speaks of: u validated as a known path
\* and the homepage links it
ReachableBothWays(t, u) ==
    /\ Count(HitsIn(t, "known"), u) > 0
    /\ u \in LinkedFromHome(t)

\* the claim, on every finished run over such a site
C18_DuplicateAcrossPhases ==
    \A t \in Tasks :
        \A u \in LinkedFromHome(t) :
            (Succeeded(t) /\ ReachableBothWays(t, u)) =>
                /\ Count(UrlsOf(result[t].feeds), u) = 2
                /\ Count(HtmlHits(t), u) = 1

\* no result holds feeds of both phases; a known-path feed is in the
\* result once; a feed is there twice only as two candidates of the scan
C18_NoDuplicateAcrossPhases ==
    \A t \in Tasks :
        /\ HitsIn(t, "known") = << >> \/ HtmlHits(t) = << >>
        /\ Done(t) =>
               \A i \in 1..Len(result[t].feeds) :
                   LET u == result[t].feeds[i].url
                   IN  /\ Count(HitsIn(t, "known"), u) > 0 =>
                              /\ Count(UrlsOf(result[t].feeds), u) = 1
                              /\ ~RootFetched(t)
                       /\ Count(UrlsOf(result[t].feeds), u)
                              <= Count(FetchesIn(t, "links"), u) + Count(FetchesIn(t, "anchors"), u)
                                     + Count(FetchesIn(t, "known"), u)

\* a.io is done: /atom.xml validated as a known path, the homepage links
\* it, and it is in the result once
C18_Witness ==
    \E t \in Tasks :
        /\ Succeeded(t)
        /\ ReachableBothWays(t, "https://a.io/atom.xml")
        /\ Count(UrlsOf(result[t].feeds), "https://a.io/atom.xml") = 1
        /\ HtmlHits(t) = << >>

\* ------------------------------------------------------------------------
\* C19: under fair scheduling of the tasks, every exchange returning or
\* failing in the end, every call of _process_urls completes: every
\* acquire is granted, every fetch ends after at most max_retries
\* attempts, and every discovery returns its result.
\* ------------------------------------------------------------------------

InAcquire(t) == t \in Tasks /\ pc[t] \in {"call_fetch", "lock_wait", "limiter_sleep"}

PastAcquire(t) == t \in Tasks /\ pc[t] \in {"awaiting", "fetch_return"}

InExecute(t) == t \in Tasks /\ pc[t] \in {"awaiting", "backoff"}

FetchEnded(t) == t \in Tasks /\ pc[t] = "fetch_return"

BatchComplete ==
    /\ batch_pc = "returned"
    /\ Len(results) = Len(urls)
    /\ \A t \in Tasks : Done(t)

\* a task leaves acquire only by being granted and leaves execute only by
\* the fetch ending; with every task done in the end, each acquire is
\* granted and each fetch ends
LeavesOnlyForward ==
    \A t \in Tasks :
        /\ InAcquire(t) /\ ~InAcquire(t)' => PastAcquire(t)'
        /\ InExecute(t) /\ ~InExecute(t)' => FetchEnded(t)'

C19_BatchCompletes ==
    /\ <>BatchComplete
    /\ [](\A t \in Tasks : Done(t) => ~InAcquire(t) /\ ~InExecute(t))
    /\ [](\A t \in Tasks : calls[t] <= max_retries)
    /\ [][LeavesOnlyForward]_vars

\* a batch of two sites, whose tasks went through the limiter concurrently,
\* has returned both results
C19_Witness ==
    /\ BatchComplete
    /\ Len(urls) = 2
    /\ max_retries = MaxRetriesBound
    /\ \A t \in Tasks : Len(fetch_log[t]) >= 2

\* ------------------------------------------------------------------------
\* C20: _fetch_url calls acquire once per fetch, before the first attempt,
\* and has left the limiter when an attempt or a backoff sleep begins: a
\* task awaiting a response or sleeping in backoff neither owns the lock
\* nor waits for it, and a retry does not touch the limiter.
\* ------------------------------------------------------------------------

\* _fetch_url is called by task t in this step
FetchCalled(t) == Len(fetch_log'[t]) = Len(fetch_log[t]) + 1

\* task t enters acquire in this step
AcquireCalled(t) == ~InAcquire(t) /\ InAcquire(t)'

\* task t hands a GET to the transport in this step
AttemptBegins(t) == pc[t] # "awaiting" /\ pc'[t] = "awaiting"

OutsideLimiter(t) == lock_owner # t /\ \A i \in 1..Len(lock_waiters) : lock_waiters[i] # t

AcquireOncePerFetch ==
    \A t \in Tasks :
        /\ AcquireCalled(t) <=> FetchCalled(t)
        /\ InExecute(t) => ~InAcquire(t)'
        /\ AttemptBegins(t) =>
              \/ InAcquire(t) /\ calls'[t] = 1 /\ age' = 0 /\ lock_owner' = NoTask
              \/ /\ pc[t] = "backoff"
                 /\ calls'[t] = calls[t] + 1
                 /\ UNCHANGED <<lock_owner, lock_waiters, age, acq_age>>

C20_AcquireOnceBeforeAttempts ==
    /\ [](\A t \in Tasks : InExecute(t) => OutsideLimiter(t))
    /\ [](lock_owner # NoTask => pc[lock_owner] = "limiter_sleep")
    /\ [][AcquireOncePerFetch]_vars

\* one task sleeps in backoff after a failed attempt while another task
\* is inside acquire, owning the lock
C20_Witness ==
    \E t, u \in Tasks :
        /\ t # u
        /\ pc[t] = "backoff"
        /\ calls[t] >= 1
        /\ lock_owner = u
        /\ pc[u] = "limiter_sleep"

====
